---- MODULE Spec2Model ----
(***************************************************************************)
(* topolograph-sdk, collection pipeline: the command registry              *)
(* (collector/commands.py), the inventory (collector/inventory.py) and     *)
(* TopologyCollector.collect with its Nornir host tasks                    *)
(* (collector/collector.py).                                               *)
(*                                                                         *)
(* Conventions of the model                                                *)
(*  - A host name is a number: its rank under Python's string comparison,  *)
(*    the order yaml.dump gives the keys of the generated hosts file.      *)
(*  - A Python dict is a sequence of [k, v] pairs in insertion order;      *)
(*    assigning to a present key keeps the key's place (DictSet).          *)
(*  - A formatted string is a tuple whose head is the format and whose     *)
(*    tail are the values put in it; None is the empty tuple.              *)
(*  - raw_lsdb_text is the sequence of its blocks with the "\n" that       *)
(*    str.join puts between them.                                          *)
(*                                                                         *)
(* Specifications                                                          *)
(*  - Spec: a collector built on an inventory file of up to MaxHosts      *)
(*    hosts, and one collect() call with its host tasks.                   *)
(*  - PoolSpec: the same run over PoolHosts hosts, more than num_workers.  *)
(*  - RegistrySpec: a client calling get_commands, list_protocols and      *)
(*    list_vendors and changing the lists it got.                          *)
(*  - InventorySpec: a client calling Inventory.get_hosts with filters     *)
(*    and changing the lists it got.                                       *)
(*  - FairSpec: a collect() call over devices that may never answer,       *)
(*    under the fair scheduling of the worker threads.                     *)
(***************************************************************************)
EXTENDS Integers, Sequences, FiniteSets, TLC

(* ------------------------------ bounds -------------------------------- *)

\* Hosts in the inventory file, and the host names 1..MaxHosts.
MaxHosts == 2

\* Returned lists a client of commands.py or of the inventory holds at a
\* time, and the changes it makes to them.
MaxHeld == 2

MaxMutations == 2

\* Hosts of a fleet larger than the runner's pool of workers.
PoolHosts == 11

(* ------------------------- Python helpers ----------------------------- *)

\* None (an absent argument, an Optional field left unset).
None == <<>>

\* The argument None of collect(protocol=None) / get_hosts(protocol=None).
NoArg == "<None>"

\* Lower as it would be if the argument were used as given.
Lower_omitted(s) == s

\* str.lower() on the protocol and vendor spellings the model uses.
Lower(s) ==
  CASE s = "OSPF" -> "ospf"
    [] s = "Ospf" -> "ospf"
    [] s = "ISIS" -> "isis"
    [] s = "Cisco" -> "cisco"
    [] s = "CISCO" -> "cisco"
    [] s = "Juniper" -> "juniper"
    [] s = "BIRD" -> "bird"
    [] s = "BGP" -> "bgp"
    [] s = "ACME" -> "acme"
    [] OTHER -> s

\* Python truthiness of an optional string argument: None and "" are falsy.
Truthy(s) == s # NoArg /\ s # ""

\* The keys of a dict, in insertion order.
RECURSIVE DictKeys(_)
DictKeys(d) == IF d = <<>> THEN <<>> ELSE <<d[1].k>> \o DictKeys(Tail(d))

DictHas(d, key) == \E i \in 1..Len(d) : d[i].k = key

DictGet(d, key) == d[CHOOSE i \in 1..Len(d) : d[i].k = key].v

\* d[key] = val
DictSet(d, key, val) ==
  IF DictHas(d, key)
  THEN [i \in 1..Len(d) |-> IF d[i].k = key THEN [k |-> key, v |-> val] ELSE d[i]]
  ELSE Append(d, [k |-> key, v |-> val])

\* sep.join(parts)
RECURSIVE str_join(_, _)
str_join(sep, parts) ==
  IF Len(parts) <= 1 THEN parts
  ELSE <<parts[1], sep>> \o str_join(sep, Tail(parts))

(* -------------------------- commands.py ------------------------------- *)

OspfIos == << "show ip ospf database router",
              "show ip ospf database network",
              "show ip ospf database external" >>

OspfDetail == << "show ip ospf database router detail",
                 "show ip ospf database network detail",
                 "show ip ospf database external detail" >>

Thrice(c) == << c, c, c >>

\* COMMAND_REGISTRY["ospf"], as a dict vendor -> command list.
RegistryOspf == <<
  [k |-> "cisco", v |-> OspfIos],
  [k |-> "juniper", v |-> << "show ospf database router extensive | no-more",
                             "show ospf database network extensive | no-more",
                             "show ospf database external extensive | no-more" >>],
  [k |-> "frr", v |-> OspfIos],
  [k |-> "quagga", v |-> OspfIos],
  [k |-> "arista", v |-> OspfDetail],
  [k |-> "nokia", v |-> << "show router ospf database type router detail",
                           "show router ospf database type network detail",
                           "show router ospf database type external detail" >>],
  [k |-> "cisco_nxos", v |-> OspfDetail],
  [k |-> "fortinet", v |-> << "get router info ospf database router lsa",
                              "get router info ospf database network lsa",
                              "get router info ospf database external lsa" >>],
  [k |-> "ruckus", v |-> << "show ip ospf database link-state router",
                            "show ip ospf database link-state network",
                            "show ip ospf database external-link-state" >>],
  [k |-> "bird", v |-> Thrice("show ospf state all")],
  [k |-> "mikrotik", v |-> Thrice("/routing ospf lsa print detail file=lsa.txt")],
  [k |-> "huawei", v |-> << "display ospf lsdb router",
                            "display ospf lsdb network",
                            "display ospf lsdb ase" >>],
  [k |-> "paloalto", v |-> Thrice("show routing protocol ospf dumplsdb")],
  [k |-> "ubiquiti", v |-> OspfIos],
  [k |-> "allied_telesis", v |-> OspfIos],
  [k |-> "extreme", v |-> << "show ospf lsdb detail lstype router",
                             "show ospf lsdb detail lstype network",
                             "show ospf lsdb detail lstype as-external" >>],
  [k |-> "ericsson", v |-> << "show ospf database router detail",
                              "show ospf database network detail",
                              "show ospf database external detail" >>] >>

RegistryOspfv3 == <<
  [k |-> "arista", v |-> << "show ipv6 ospf database detail" >>] >>

RegistryIsis == <<
  [k |-> "cisco", v |-> << "show isis database detail" >>],
  [k |-> "juniper", v |-> << "show isis database extensive" >>],
  [k |-> "frr", v |-> << "show isis database detail" >>],
  [k |-> "nokia", v |-> << "show router isis database detail" >>],
  [k |-> "huawei", v |-> << "display isis lsdb verbose" >>] >>

COMMAND_REGISTRY == <<
  [k |-> "ospf", v |-> RegistryOspf],
  [k |-> "ospfv3", v |-> RegistryOspfv3],
  [k |-> "isis", v |-> RegistryIsis] >>

\* ValueError(f"Protocol '{protocol}' not found in command registry")
ProtocolNotFound(protocol) ==
  << "Protocol '{}' not found in command registry", protocol >>

\* VendorNotFound as it would be if the vendor failure were reported as the
\* protocol failure is.
VendorNotFoundAsProtocol(vendor, protocol) == ProtocolNotFound(protocol)

\* ValueError(f"Vendor '{vendor}' not found for protocol '{protocol}'. Available vendors: {...}")
VendorNotFound(vendor, protocol) ==
  << "Vendor '{}' not found for protocol '{}'. Available vendors: {}",
     vendor, protocol, DictKeys(DictGet(COMMAND_REGISTRY, protocol)) >>

\* get_commands as it would be with dict.get(..., []) in place of the checks.
get_commands_lenient(protocol, vendor) ==
  LET p == Lower(protocol)
      v == Lower(vendor)
  IN  IF DictHas(COMMAND_REGISTRY, p) /\ DictHas(DictGet(COMMAND_REGISTRY, p), v)
      THEN [raised |-> FALSE, exc |-> "", msg |-> None,
            value |-> DictGet(DictGet(COMMAND_REGISTRY, p), v)]
      ELSE [raised |-> FALSE, exc |-> "", msg |-> None, value |-> <<>>]

\* get_commands: [raised |-> FALSE, value |-> the list] or
\* [raised |-> TRUE, exc |-> "ValueError", msg |-> the message].
get_commands(protocol, vendor) ==
  LET p == Lower(protocol)
      v == Lower(vendor)
  IN  IF ~DictHas(COMMAND_REGISTRY, p)
      THEN [raised |-> TRUE, exc |-> "ValueError", msg |-> ProtocolNotFound(p), value |-> <<>>]
      ELSE IF ~DictHas(DictGet(COMMAND_REGISTRY, p), v)
      THEN [raised |-> TRUE, exc |-> "ValueError", msg |-> VendorNotFound(v, p), value |-> <<>>]
      ELSE [raised |-> FALSE, exc |-> "", msg |-> None,
            value |-> DictGet(DictGet(COMMAND_REGISTRY, p), v)]

\* get_commands on the module-level dict as it is at the time of the call,
\* `reg`: its lists are objects a holder of a reference could change, its
\* keys are not (list_protocols and list_vendors build new lists of them).
get_commands_in(reg, protocol, vendor) ==
  LET p == Lower(protocol)
      v == Lower(vendor)
  IN  IF ~DictHas(reg, p)
      THEN [raised |-> TRUE, exc |-> "ValueError", msg |-> ProtocolNotFound(p), value |-> <<>>]
      ELSE IF ~DictHas(DictGet(reg, p), v)
      THEN [raised |-> TRUE, exc |-> "ValueError", msg |-> VendorNotFound(v, p), value |-> <<>>]
      ELSE [raised |-> FALSE, exc |-> "", msg |-> None,
            value |-> DictGet(DictGet(reg, p), v)]

\* list_protocols
list_protocols(reg) ==
  [raised |-> FALSE, exc |-> "", msg |-> None, value |-> DictKeys(reg)]

\* list_vendors
list_vendors(reg, protocol) ==
  LET p == Lower(protocol)
  IN  IF ~DictHas(reg, p)
      THEN [raised |-> TRUE, exc |-> "ValueError", msg |-> ProtocolNotFound(p), value |-> <<>>]
      ELSE [raised |-> FALSE, exc |-> "", msg |-> None,
            value |-> DictKeys(DictGet(reg, p))]

\* A reference to the list object COMMAND_REGISTRY[p][v]; NoRef is a list
\* object of its own.
NoRef == <<>>

RegistryRef(p, v) == << "COMMAND_REGISTRY", p, v >>

\* copy as it would be if the list itself were returned.
copy_omitted(ref) == ref

\* `.copy()`: the returned list is a new object.
copy(ref) == NoRef

\* The spellings a client passes to get_commands and list_vendors.
ProtocolSpellings == {"ospf", "OSPF", "isis", "BGP"}

VendorSpellings == {"cisco", "CISCO", "bird", "ACME"}

\* What a client does to a list it holds.
ListOps == {"append", "pop", "clear"}

ApplyOp(op, l) ==
  CASE op = "append" -> Append(l, "junk")
    [] op = "pop" -> IF l = <<>> THEN l ELSE SubSeq(l, 1, Len(l) - 1)
    [] op = "clear" -> <<>>

(* -------------------------- inventory.py ------------------------------ *)

Names == 1..MaxHosts

\* The address ('hostname' field) the inventory file gives host `name`.
Addr(name) == << "addr", name >>

\* The (vendor, protocol) spellings a host record of the file may carry.
FileKinds == {
  [vendor |-> "Cisco",   protocol |-> "OSPF"],
  [vendor |-> "bird",    protocol |-> "ospf"],
  [vendor |-> "juniper", protocol |-> "isis"],
  [vendor |-> "acme",    protocol |-> "ospf"],
  [vendor |-> "cisco",   protocol |-> "bgp"] }

\* What yaml.safe_load gives for a host key without value (`R1:`): None.
YamlNull == [null |-> TRUE]

\* The shapes of a host record in the file: with every field, null, an empty
\* mapping, or with one required field absent or empty.
Shapes == {"full", "null", "empty", "no_hostname", "empty_hostname",
           "no_vendor", "empty_vendor", "no_protocol", "empty_protocol"}

\* The record of host `name` in the file: a mapping (a function on the keys
\* it has), or YamlNull. An empty address is None, as `'' or None` is.
RecordOf(name, kind, shape) ==
  LET full == [hostname |-> Addr(name), vendor |-> kind.vendor,
               protocol |-> kind.protocol]
      without(key) == [k \in (DOMAIN full) \ {key} |-> full[k]]
  IN  CASE shape = "full" -> full
        [] shape = "null" -> YamlNull
        [] shape = "empty" -> << >>
        [] shape = "no_hostname" -> without("hostname")
        [] shape = "empty_hostname" -> [full EXCEPT !.hostname = None]
        [] shape = "no_vendor" -> without("vendor")
        [] shape = "empty_vendor" -> [full EXCEPT !.vendor = ""]
        [] shape = "no_protocol" -> without("protocol")
        [] shape = "empty_protocol" -> [full EXCEPT !.protocol = ""]

\* dict.get(key, default)
dict_get(d, key, default) == IF key \in DOMAIN d THEN d[key] ELSE default

\* ValueError(f"Host '{name}' missing required '<field>' field")
MissingField(name, field) ==
  << "Host '{}' missing required '{}' field", name, field >>

\* AttributeError of None.get
NoneHasNoGet == << "'NoneType' object has no attribute 'get'" >>

\* `if not self.hostname: raise ... if not self.vendor: raise ... if not
\* self.protocol: raise ...`: the field of the first check that fails, or "".
MissingRequired(hostname, vendor, protocol) ==
  IF hostname = None THEN "hostname"
  ELSE IF vendor = "" THEN "vendor"
  ELSE IF protocol = "" THEN "protocol"
  ELSE ""

\* InventoryHost.__init__: the host, or the exception it raises.
InventoryHost(name, data) ==
  IF data = YamlNull
  THEN [raised |-> TRUE, exc |-> "AttributeError", msg |-> NoneHasNoGet,
        host |-> None]
  ELSE LET hostname == IF dict_get(data, "hostname", None) # None
                       THEN dict_get(data, "hostname", None)
                       ELSE dict_get(data, "host", None)
           vendor == Lower(dict_get(data, "vendor", ""))
           protocol == Lower(dict_get(data, "protocol", ""))
           missing == MissingRequired(hostname, vendor, protocol)
       IN  IF missing # ""
           THEN [raised |-> TRUE, exc |-> "ValueError",
                 msg |-> MissingField(name, missing), host |-> None]
           ELSE [raised |-> FALSE, exc |-> "", msg |-> None,
                 host |-> [name |-> name, hostname |-> hostname,
                           vendor |-> vendor, protocol |-> protocol]]

\* ValueError(f"Error parsing host '{name}': {e}")
ErrorParsingHost(name, e) == << "Error parsing host '{}': {}", name, e >>

\* Inventory.__init__ on the mapping `file`, from the record at position i,
\* `acc` holding self.hosts so far: a ValueError of InventoryHost is raised
\* again with the host's name, any other exception leaves as it is, and
\* otherwise the hosts are those of the file, in file order.
RECURSIVE LoadFrom(_, _, _)
LoadFrom(file, i, acc) ==
  IF i > Len(file)
  THEN [raised |-> FALSE, exc |-> "", msg |-> None, hosts |-> acc]
  ELSE LET h == InventoryHost(file[i].name, file[i].data)
       IN  IF ~h.raised THEN LoadFrom(file, i + 1, Append(acc, h.host))
           ELSE IF h.exc = "ValueError"
           THEN [raised |-> TRUE, exc |-> "ValueError",
                 msg |-> ErrorParsingHost(file[i].name, h.msg), hosts |-> None]
           ELSE [raised |-> TRUE, exc |-> h.exc, msg |-> h.msg, hosts |-> None]

LoadInventory(file) == LoadFrom(file, 1, <<>>)

\* get_hosts as it would be without the vendor filter.
get_hosts_protocol_only(all, protocol, vendor) ==
  IF Truthy(protocol)
  THEN LET p == Lower(protocol)
           keep(h) == h.protocol = p
       IN  SelectSeq(all, keep)
  ELSE all

\* Inventory.get_hosts(protocol, vendor) on the loaded list `all`.
get_hosts(all, protocol, vendor) ==
  LET byProtocol ==
        IF Truthy(protocol)
        THEN LET p == Lower(protocol)
                 keep(h) == h.protocol = p
             IN  SelectSeq(all, keep)
        ELSE all
  IN  IF Truthy(vendor)
      THEN LET v == Lower(vendor)
               keep(h) == h.vendor = v
           IN  SelectSeq(byProtocol, keep)
      ELSE byProtocol

\* The list object Inventory.hosts.
InventoryRef == << "Inventory.hosts" >>

\* The list object get_hosts returns: `hosts = self.hosts` is returned as it
\* is, unless a filter that is truthy rebinds `hosts` to the new list of a
\* comprehension.
get_hosts_ref(protocol, vendor) ==
  IF Truthy(protocol) \/ Truthy(vendor) THEN NoRef ELSE InventoryRef

(* -------------------- collector.py: data classes ---------------------- *)

\* @dataclass HostResult
HostResult(hostname, vendor, protocol, commands, outputs, success, error) ==
  [hostname |-> hostname, vendor |-> vendor, protocol |-> protocol,
   commands |-> commands, outputs |-> outputs, success |-> success,
   error |-> error]

\* @dataclass CollectionResult
CollectionResult(raw_lsdb_text, host_results, errors) ==
  [raw_lsdb_text |-> raw_lsdb_text, host_results |-> host_results,
   errors |-> errors]

\* nornir.core.task.Result(host, result=..., failed=..., exception=...)
Result(host, result, failed, exception) ==
  [host |-> host, result |-> result, failed |-> failed, exception |-> exception]

(* -------------------- the execution backend --------------------------- *)

\* The text the device answers to the i-th command sent to `host`.
Out(host, i) == << "out", host, i >>

\* The exception of the i-th command sent to `host`, when it fails.
CmdExc(host, i) == << "exc", host, i >>

\* The exception every command raises when no connection to `host` opens.
ConnExc(host) == << "conn", host >>

Outcomes == {"ok", "fail"}

\* Answers as it would be if the collector gave up waiting after a timeout
\* of its own and went on with what it has.
AnswersWithinTimeout(env, i) == TRUE

\* A device that has not answered yet and, nothing in the collector timing
\* it out, may never do: the outcome "hang".
Answers(env, i) == env.outcome[i] # "hang"

\* The environments of a host whose resolved list has n commands: the host is
\* unreachable (every send_command raises when it opens the connection), or
\* reachable, each invocation succeeding or failing on its own.
Envs(n) ==
  {[reachable |-> TRUE, outcome |-> o] : o \in [1..n -> Outcomes]}
    \cup {[reachable |-> FALSE, outcome |-> [i \in 1..n |-> "fail"]]}

\* The number of commands a host of this (vendor, protocol) is sent.
NCommands(kind) ==
  LET r == get_commands(kind.protocol, kind.vendor)
  IN  IF r.raised THEN 0 ELSE Len(r.value)

\* What the file says of one host, with the host's environment: a record
\* with every field, of any kind and in any environment, or a record of
\* another shape.
HostChoices ==
  UNION {{[kind |-> k, shape |-> "full", env |-> e] : e \in Envs(NCommands(k))} :
           k \in FileKinds}
    \cup {[kind |-> [vendor |-> "Cisco", protocol |-> "OSPF"], shape |-> sh,
           env |-> [reachable |-> TRUE, outcome |-> <<>>]] :
             sh \in Shapes \ {"full"}}

\* The inventory file that lists the names nm, in this order, with the
\* records of ch.
InventoryFile(nm, ch) ==
  [i \in 1..Len(nm) |->
     [name |-> nm[i], data |-> RecordOf(nm[i], ch[i].kind, ch[i].shape)]]

\* The keys of a YAML mapping are distinct.
DistinctNames(nm) == \A i, j \in 1..Len(nm) : nm[i] = nm[j] => i = j

\* The protocol arguments collect() is called with.
ProtocolArgs == {NoArg, "OSPF", "isis"}

(* ------------------- collector.py: _init_nornir ----------------------- *)

\* _get_nornir_platform
_get_nornir_platform(vendor) ==
  LET v == Lower(vendor)
  IN  CASE v = "cisco" -> "ios"
        [] v = "juniper" -> "junos"
        [] v = "arista" -> "eos"
        [] v = "nokia" -> "sros"
        [] v = "frr" -> "generic"
        [] v = "quagga" -> "generic"
        [] v = "huawei" -> "huawei"
        [] OTHER -> "generic"

\* hosts_dict: one entry per host name, in the order of `hs`.
RECURSIVE hosts_dict(_)
hosts_dict(hs) ==
  IF hs = <<>> THEN <<>>
  ELSE LET rest == hosts_dict(SubSeq(hs, 1, Len(hs) - 1))
           h == hs[Len(hs)]
       IN  DictSet(rest, h.name,
                   [hostname |-> h.hostname,
                    platform |-> _get_nornir_platform(h.vendor),
                    data |-> [vendor |-> h.vendor, protocol |-> h.protocol]])

\* yaml_dump as it would be with sort_keys=False: the keys as inserted.
yaml_dump_unsorted(d) == d

\* yaml.dump(hosts_dict, f) without sort_keys=False: the mapping is written
\* with its keys sorted.
yaml_dump(d) ==
  SortSeq(d, LAMBDA a, b : a.k < b.k)

\* InitNornir(inventory = SimpleInventory over the written files): the Nornir
\* inventory holds the hosts in the order of the hosts file.
_init_nornir(hs) == yaml_dump(hosts_dict(hs))

\* runner 'threaded', options num_workers
num_workers == 10

\* raise_on_error as it would be with core = {'raise_on_error': True}.
raise_on_error_set == TRUE

\* InitNornir is given no core.raise_on_error, whose default is False:
\* nornir.run returns the failed hosts' results instead of raising.
raise_on_error == FALSE

(* ------------------------------ state --------------------------------- *)

VARIABLES
  load,         \* Inventory(inventory_path): the file, and what loading it raised
  hosts,        \* Inventory.hosts: the loaded hosts, in file order
  backend,      \* per host name, how the device answers (the environment)
  pc,           \* collect(): "idle", "running" (in nornir.run), "returned", "raised";
                \* "failed": TopologyCollector(inventory_path) raised, no collector
  protocol,     \* collect()'s argument
  selected,     \* collect()'s local `hosts`
  nornir,       \* the Nornir inventory: a dict name -> host, in file order
  task,         \* per host name, the state of its _collect_host task
  finished,     \* the host names in the order their tasks finished
  invoked,      \* per host name, the commands sent to the backend so far
  result,       \* what collect() returned
  registry,     \* commands.py: the module-level COMMAND_REGISTRY object
  held,         \* the lists a client got from the API and still holds
  last,         \* the last call a client made to the API, with its outcome
  nmut          \* the number of changes the client made to lists it holds

collectorVars == << load, hosts, backend, pc, protocol, selected, nornir, task,
                    finished, invoked, result >>

clientVars == << registry, held, last, nmut >>

vars == << load, hosts, backend, pc, protocol, selected, nornir, task, finished,
           invoked, result, registry, held, last, nmut >>

\* No call yet.
NoCall ==
  [op |-> "none", protocol |-> NoArg, vendor |-> NoArg, raised |-> FALSE,
   exc |-> "", msg |-> None, value |-> <<>>]

\* No client of the API besides the collector.
NoClient ==
  /\ registry = COMMAND_REGISTRY
  /\ held = <<>>
  /\ last = NoCall
  /\ nmut = 0

\* The host names of the run: those the backend knows.
HostNames == DOMAIN backend

\* A task that has not been submitted.
NoTask ==
  [status |-> "none", commands |-> <<>>, idx |-> 0, inflight |-> FALSE,
   results |-> <<>>, failed |-> FALSE, exception |-> None]

Init ==
  \E n \in 0..MaxHosts : \E nm \in [1..n -> Names], ch \in [1..n -> HostChoices] :
    /\ DistinctNames(nm)
    /\ LET file == InventoryFile(nm, ch)
           ld == LoadInventory(file)
       IN  /\ load = [file |-> file, raised |-> ld.raised, exc |-> ld.exc,
                      msg |-> ld.msg]
           /\ hosts = ld.hosts
           /\ pc = IF ld.raised THEN "failed" ELSE "idle"
    /\ backend = [x \in Names |->
                    IF \E i \in 1..n : nm[i] = x
                    THEN ch[CHOOSE i \in 1..n : nm[i] = x].env
                    ELSE [reachable |-> TRUE, outcome |-> <<>>]]
    /\ protocol = NoArg
    /\ selected = <<>>
    /\ nornir = <<>>
    /\ task = [x \in Names |-> NoTask]
    /\ finished = <<>>
    /\ invoked = [x \in Names |-> <<>>]
    /\ result = None
    /\ NoClient

(* ------------------- collector.py: _collect_host ---------------------- *)

\* netmiko_send_command / scrapli_send_command for the i-th command of the
\* task on `host`: the text, or an exception (the connection is opened by the
\* first command that needs it, and an unreachable host fails every one).
send_command(host, i) ==
  IF ~backend[host].reachable
  THEN [raised |-> TRUE, value |-> None, exception |-> ConnExc(host)]
  ELSE IF backend[host].outcome[i] = "fail"
  THEN [raised |-> TRUE, value |-> None, exception |-> CmdExc(host, i)]
  ELSE [raised |-> FALSE, value |-> Result(host, Out(host, i), FALSE, None),
        exception |-> None]

\* try: result = send_command(...); results[cmd] = result
\* except Exception as e: results[cmd] = Result(host=host, failed=True, exception=e)
TryCommand(host, i) ==
  LET r == send_command(host, i)
  IN  IF r.raised THEN Result(host, None, TRUE, r.exception) ELSE r.value

\* LoopNext as it would be with a `break` in the except clause.
LoopBreakOnFailure(idx, cmd_result, commands) ==
  IF cmd_result.failed THEN Len(commands) + 1 ELSE idx + 1

\* `for cmd in commands`: the position of the next command once the command
\* at idx has given cmd_result.
LoopNext(idx, cmd_result, commands) == idx + 1

\* ResultsDict as it would be with one dict kept on the collector and
\* written by every task: the dict of the first host submitted.
ResultsDictShared(name) == nornir[1].k

\* `results = {}` in _collect_host: the dict a task writes to and returns is
\* a local of its own call, named here by the host of the task.
ResultsDict(name) == name

\* The Result a host task hands to the runner.
TaskResult(name) ==
  IF task[name].failed
  THEN Result(name, None, TRUE, task[name].exception)
  ELSE Result(name, task[ResultsDict(name)].results, FALSE, None)

Running == {x \in HostNames : task[x].status = "running"}

\* WorkerFree as it would be with a worker per host.
WorkerFreeAlways == TRUE

\* ThreadPoolExecutor(num_workers): a queued task is taken when fewer than
\* num_workers tasks are being run.
WorkerFree == Cardinality(Running) < num_workers

\* The runner's pool takes the queued tasks in submission order, while a
\* worker is free.
MayStart(name) ==
  /\ task[name].status = "queued"
  /\ \A i, j \in 1..Len(nornir) :
       (i < j /\ nornir[j].k = name) => task[nornir[i].k].status # "queued"
  /\ WorkerFree

\* A worker starts the task: _collect_host up to the command loop. A ValueError
\* of get_commands makes it return Result(failed=True, exception=ValueError(str(e))).
StartTask(name) ==
  /\ MayStart(name)
  /\ LET host == DictGet(nornir, name)
         r == get_commands(host.data.protocol, host.data.vendor)
     IN  IF r.raised
         THEN /\ task' = [task EXCEPT ![name] =
                            [@ EXCEPT !.status = "done", !.failed = TRUE,
                                      !.exception = r.msg]]
              /\ finished' = Append(finished, name)
         ELSE /\ task' = [task EXCEPT ![name] =
                            [@ EXCEPT !.status = "running",
                                      !.commands = r.value, !.idx = 1]]
              /\ finished' = finished
  /\ UNCHANGED << load, hosts, backend, pc, protocol, selected, nornir, invoked, result >>
  /\ UNCHANGED clientVars

\* MaySend as it would be if send_command returned before the device answered.
MaySendWithoutWaiting(t) == TRUE

\* send_command is a blocking call inside the `for` loop: the task sends a
\* command only when it waits for no answer.
MaySend(t) == ~t.inflight

\* The task sends the command at idx and waits for the backend.
Invoke(name) ==
  /\ task[name].status = "running"
  /\ MaySend(task[name])
  /\ task[name].idx <= Len(task[name].commands)
  /\ task' = [task EXCEPT ![name].inflight = TRUE]
  /\ invoked' = [invoked EXCEPT ![name] =
                   Append(@, task[name].commands[task[name].idx])]
  /\ UNCHANGED << load, hosts, backend, pc, protocol, selected, nornir, finished, result >>
  /\ UNCHANGED clientVars

\* The backend answers or fails; the task stores the outcome under the command.
Return(name) ==
  /\ task[name].status = "running"
  /\ task[name].inflight
  /\ Answers(backend[name], task[name].idx)
  /\ LET t == task[name]
         r == TryCommand(name, t.idx)
     IN  task' = [task EXCEPT
                    ![name] = [@ EXCEPT !.inflight = FALSE,
                                        !.idx = LoopNext(t.idx, r, t.commands)],
                    ![ResultsDict(name)].results =
                       DictSet(@, t.commands[t.idx], r)]
  /\ UNCHANGED << load, hosts, backend, pc, protocol, selected, nornir, finished,
                  invoked, result >>
  /\ UNCHANGED clientVars

\* The loop is over: return Result(host=host, result=results).
FinishTask(name) ==
  /\ task[name].status = "running"
  /\ ~task[name].inflight
  /\ task[name].idx > Len(task[name].commands)
  /\ task' = [task EXCEPT ![name].status = "done"]
  /\ finished' = Append(finished, name)
  /\ UNCHANGED << load, hosts, backend, pc, protocol, selected, nornir, invoked, result >>
  /\ UNCHANGED clientVars

(* --------------------- collector.py: collect -------------------------- *)

\* f"{host_name}: {error_msg}"
HostError(host_name, error_msg) == << "{}: {}", host_name, error_msg >>

\* f"Host {host_name} not found in inventory"
HostNotFound(host_name) == << "Host {} not found in inventory", host_name >>

\* f"{host_name} - {cmd}: {cmd_result.exception}"
CommandError(host_name, cmd, exception) ==
  << "{} - {}: {}", host_name, cmd, exception >>

\* f"ERROR: {cmd_result.exception}"
ErrorSentinel(exception) == << "ERROR: {}", exception >>

\* f"=== {host_name} - {cmd} ===\n{output}\n"
Block(host_name, cmd, output) == << "=== {} - {} ===\n{}\n", host_name, cmd, output >>

\* NoHosts as it would be without the check.
NoHostsUnchecked(hs) == FALSE

\* `if not hosts`
NoHosts(hs) == hs = <<>>

\* The CollectionResult of a call that selected no host.
EmptyResult == CollectionResult(<<>>, <<>>, << <<"No hosts found in inventory">> >>)

\* next((h for h in hosts if h.name == host_name), None): the matches, of
\* which the first is taken; none stands for None.
Lookup(hs, host_name) ==
  SelectSeq(hs, LAMBDA h : h.name = host_name)

\* The loop over result.result.items() of one host: acc holds outputs,
\* host_outputs and errors.
RECURSIVE ProcessCommands(_, _, _)
ProcessCommands(acc, host_name, items) ==
  IF items = <<>> THEN acc
  ELSE LET cmd == items[1].k
           cmd_result == items[1].v
           next ==
             IF cmd_result.failed
             THEN [acc EXCEPT
                     !.outputs = DictSet(@, cmd, ErrorSentinel(cmd_result.exception)),
                     !.errors = Append(@, CommandError(host_name, cmd,
                                                       cmd_result.exception))]
             ELSE [acc EXCEPT
                     !.outputs = DictSet(@, cmd, cmd_result.result),
                     !.host_outputs = Append(@, Block(host_name, cmd,
                                                      cmd_result.result))]
       IN  ProcessCommands(next, host_name, Tail(items))

\* AppendFailed as it would be if a failed host were skipped.
AppendFailedSkipped(host_results, found, failedHost) == host_results

\* `if host: host_results.append(HostResult(..., success=False, ...))`
AppendFailed(host_results, found, failedHost) ==
  IF found # <<>> THEN Append(host_results, failedHost) ELSE host_results

\* One turn of `for host_name, result in results.items()`: acc holds
\* host_results, errors and aggregated_outputs. Every task result of
\* _collect_host that has not failed carries a dict, so the single-command
\* branch of the code is never taken.
ProcessHost(acc, hs, host_name, res) ==
  LET found == Lookup(hs, host_name)
      host == found[1]
  IN  IF res.failed
      THEN LET error_msg == IF res.exception # None THEN res.exception
                            ELSE << "Unknown error" >>
               failedHost == HostResult(host.hostname, host.vendor, host.protocol,
                                        <<>>, <<>>, FALSE, error_msg)
           IN  [acc EXCEPT
                  !.errors = Append(@, HostError(host_name, error_msg)),
                  !.host_results = AppendFailed(@, found, failedHost)]
      ELSE IF found = <<>>
      THEN [acc EXCEPT !.errors = Append(@, HostNotFound(host_name))]
      ELSE LET gc == get_commands(host.protocol, host.vendor)
           IN  IF gc.raised
               THEN [acc EXCEPT
                       !.errors = Append(@, HostError(host_name, gc.msg)),
                       !.host_results =
                          Append(@, HostResult(host.hostname, host.vendor,
                                               host.protocol, <<>>, <<>>, FALSE,
                                               gc.msg))]
               ELSE LET c == ProcessCommands(
                               [outputs |-> <<>>, host_outputs |-> <<>>,
                                errors |-> acc.errors],
                               host_name, res.result)
                    IN  [host_results |->
                           Append(acc.host_results,
                                  HostResult(host.hostname, host.vendor,
                                             host.protocol, gc.value, c.outputs,
                                             TRUE, None)),
                         errors |-> c.errors,
                         aggregated_outputs |->
                           acc.aggregated_outputs \o c.host_outputs]

\* The loop over results.items().
RECURSIVE ProcessResults(_, _, _)
ProcessResults(acc, hs, items) ==
  IF items = <<>> THEN acc
  ELSE ProcessResults(ProcessHost(acc, hs, items[1].k, items[1].v),
                      hs, Tail(items))

\* Lines 85-169 of collect(): the CollectionResult built from `results`.
BuildResult(hs, results) ==
  LET acc == ProcessResults([host_results |-> <<>>, errors |-> <<>>,
                             aggregated_outputs |-> <<>>], hs, results)
  IN  CollectionResult(str_join(<< "\n" >>, acc.aggregated_outputs),
                       acc.host_results, acc.errors)

\* RunOrder as it would be if the futures were read as they complete.
RunOrderAsCompleted(nornirNames, done) == done

\* The threaded runner submits one task per host of the Nornir inventory, in
\* its order, and fills the AggregatedResult from the futures in that order.
RunOrder(nornirNames, done) == nornirNames

\* The AggregatedResult of nornir.run: host name -> the task's result.
AggregatedResult ==
  LET order == RunOrder(DictKeys(nornir), finished)
  IN  [i \in 1..Len(order) |-> [k |-> order[i], v |-> TaskResult(order[i])]]

\* JoinReady as it would be if the runner waited for the first task only.
JoinFirstCompleted == \E i \in 1..Len(nornir) : task[nornir[i].k].status = "done"

\* The runner leaves its pool, and nornir.run returns, once every task is done.
JoinReady == \A i \in 1..Len(nornir) : task[nornir[i].k].status = "done"

\* collect(protocol), up to nornir.run.
CollectCall(p) ==
  /\ pc = "idle"
  /\ protocol' = p
  /\ LET hs == get_hosts(hosts, p, NoArg)
     IN  /\ selected' = hs
         /\ IF NoHosts(hs)
            THEN /\ pc' = "returned"
                 /\ result' = EmptyResult
                 /\ UNCHANGED << nornir, task >>
            ELSE /\ pc' = "running"
                 /\ nornir' = _init_nornir(hs)
                 /\ task' = [x \in HostNames |->
                               IF DictHas(_init_nornir(hs), x)
                               THEN [NoTask EXCEPT !.status = "queued"]
                               ELSE NoTask]
                 /\ UNCHANGED result
  /\ UNCHANGED << load, hosts, backend, finished, invoked >>
  /\ UNCHANGED clientVars

\* nornir.run returns and collect() builds its result.
Join ==
  /\ pc = "running"
  /\ JoinReady
  /\ IF raise_on_error /\ \E i \in 1..Len(nornir) : task[nornir[i].k].failed
     THEN /\ pc' = "raised"
          /\ UNCHANGED result
     ELSE /\ pc' = "returned"
          /\ result' = BuildResult(selected, AggregatedResult)
  /\ UNCHANGED << load, hosts, backend, protocol, selected, nornir, task, finished,
                  invoked >>
  /\ UNCHANGED clientVars

Next ==
  \/ \E p \in ProtocolArgs : CollectCall(p)
  \/ \E n \in HostNames : StartTask(n)
  \/ \E n \in HostNames : Invoke(n)
  \/ \E n \in HostNames : Return(n)
  \/ \E n \in HostNames : FinishTask(n)
  \/ Join

Spec == Init /\ [][Next]_vars

(* ------------- collect() over more hosts than workers ----------------- *)

\* The fleets: PoolHosts hosts of protocol isis, named 1..PoolHosts and
\* listed in this order, each with one command to send. Either all are
\* juniper hosts of which two answer, one of the first num_workers and the
\* last, the others keeping their worker; or one juniper host that answers
\* and hosts of a vendor without registry entry.
PoolFleets ==
  {[vendor |-> [x \in 1..PoolHosts |-> "juniper"],
    outcome |-> [x \in 1..PoolHosts |->
                   IF x \in {k, PoolHosts} THEN "ok" ELSE "hang"]] :
     k \in {1, num_workers}}
  \cup
  {[vendor |-> [x \in 1..PoolHosts |-> IF x = k THEN "juniper" ELSE "acme"],
    outcome |-> [x \in 1..PoolHosts |-> "ok"]] : k \in {1}}

PoolInit ==
  \E fleet \in PoolFleets :
    LET file == [x \in 1..PoolHosts |->
                   [name |-> x,
                    data |-> RecordOf(x, [vendor |-> fleet.vendor[x],
                                          protocol |-> "isis"], "full")]]
        ld == LoadInventory(file)
    IN  /\ load = [file |-> file, raised |-> ld.raised, exc |-> ld.exc,
                   msg |-> ld.msg]
        /\ hosts = ld.hosts
        /\ pc = IF ld.raised THEN "failed" ELSE "idle"
        /\ backend = [x \in 1..PoolHosts |->
                        [reachable |-> TRUE, outcome |-> << fleet.outcome[x] >>]]
        /\ protocol = NoArg
        /\ selected = <<>>
        /\ nornir = <<>>
        /\ task = [x \in 1..PoolHosts |-> NoTask]
        /\ finished = <<>>
        /\ invoked = [x \in 1..PoolHosts |-> <<>>]
        /\ result = None
        /\ NoClient

PoolSpec == PoolInit /\ [][Next]_vars

(* ------------- collect() with devices that may not answer ------------- *)

\* The hosts of these runs: a host with three commands, a host with one and
\* a host of a vendor without registry entry.
LiveKinds == {
  [vendor |-> "Cisco",   protocol |-> "OSPF"],
  [vendor |-> "juniper", protocol |-> "isis"],
  [vendor |-> "acme",    protocol |-> "ospf"] }

\* Each invocation succeeds, fails, or is never answered; of the invocations
\* of one host, at most one does not succeed.
LiveEnvs(n) ==
  {[reachable |-> TRUE, outcome |-> o] :
     o \in {f \in [1..n -> Outcomes \cup {"hang"}] :
              \A i, j \in 1..n : (f[i] # "ok" /\ f[j] # "ok") => i = j}}

LiveChoices ==
  UNION {{[kind |-> k, shape |-> "full", env |-> e] :
            e \in LiveEnvs(NCommands(k))} : k \in LiveKinds}

LiveInit ==
  \E n \in 0..MaxHosts : \E nm \in [1..n -> Names], ch \in [1..n -> LiveChoices] :
    /\ DistinctNames(nm)
    /\ LET file == InventoryFile(nm, ch)
           ld == LoadInventory(file)
       IN  /\ load = [file |-> file, raised |-> ld.raised, exc |-> ld.exc,
                      msg |-> ld.msg]
           /\ hosts = ld.hosts
           /\ pc = IF ld.raised THEN "failed" ELSE "idle"
    /\ backend = [x \in Names |->
                    IF \E i \in 1..n : nm[i] = x
                    THEN ch[CHOOSE i \in 1..n : nm[i] = x].env
                    ELSE [reachable |-> TRUE, outcome |-> <<>>]]
    /\ protocol = NoArg
    /\ selected = <<>>
    /\ nornir = <<>>
    /\ task = [x \in Names |-> NoTask]
    /\ finished = <<>>
    /\ invoked = [x \in Names |-> <<>>]
    /\ result = None
    /\ NoClient

\* The scheduling of a run. The pool hands a queued task to a free worker,
\* a worker thread that can take its next step takes it, a device that
\* answers does so in the end, and the thread of collect() goes on once
\* nornir.run can return. Nothing makes the caller call collect().
Fairness ==
  /\ \A n \in Names :
       /\ WF_vars(StartTask(n))
       /\ WF_vars(Invoke(n))
       /\ WF_vars(Return(n))
       /\ WF_vars(FinishTask(n))
  /\ WF_vars(Join)

FairSpec == LiveInit /\ [][Next]_vars /\ Fairness

(* ------------------ commands.py: the calls of a client ---------------- *)

\* The collector at rest: no inventory loaded, no run.
NoCollector ==
  /\ load = [file |-> <<>>, raised |-> FALSE, exc |-> "", msg |-> None]
  /\ hosts = <<>>
  /\ backend = [x \in Names |-> [reachable |-> TRUE, outcome |-> <<>>]]
  /\ pc = "idle"
  /\ protocol = NoArg
  /\ selected = <<>>
  /\ nornir = <<>>
  /\ task = [x \in Names |-> NoTask]
  /\ finished = <<>>
  /\ invoked = [x \in Names |-> <<>>]
  /\ result = None

\* The module as imported.
RegistryInit ==
  /\ NoCollector
  /\ NoClient

\* The list a held reference stands for, now.
Deref(h) ==
  IF h.ref = NoRef THEN h.val
  ELSE DictGet(DictGet(registry, h.ref[2]), h.ref[3])

\* reg with the list object reg[p][v] changed to l.
RegistrySet(reg, p, v, l) == DictSet(reg, p, DictSet(DictGet(reg, p), v, l))

\* The client keeps the returned list h, dropping the oldest it holds when
\* it holds MaxHeld.
Keep(hs, h) ==
  IF Len(hs) < MaxHeld THEN Append(hs, h) ELSE Append(Tail(hs), h)

\* What the client records of a call and its outcome r.
Call(op, p, v, r) ==
  [op |-> op, protocol |-> p, vendor |-> v, raised |-> r.raised,
   exc |-> r.exc, msg |-> r.msg, value |-> r.value]

\* A client calls get_commands(p, v).
GetCommands(p, v) ==
  /\ LET r == get_commands_in(registry, p, v)
     IN  /\ last' = Call("get_commands", p, v, r)
         /\ held' = IF r.raised THEN held
                    ELSE Keep(held, [op |-> "get_commands",
                                     protocol |-> Lower(p),
                                     vendor |-> Lower(v),
                                     ref |-> copy(RegistryRef(Lower(p), Lower(v))),
                                     val |-> r.value])
  /\ UNCHANGED << registry, nmut >>
  /\ UNCHANGED collectorVars

\* A client calls list_protocols(): list(COMMAND_REGISTRY.keys()) is a new list.
ListProtocols ==
  /\ LET r == list_protocols(registry)
     IN  /\ last' = Call("list_protocols", NoArg, NoArg, r)
         /\ held' = Keep(held, [op |-> "list_protocols", protocol |-> NoArg,
                                vendor |-> NoArg, ref |-> NoRef, val |-> r.value])
  /\ UNCHANGED << registry, nmut >>
  /\ UNCHANGED collectorVars

\* A client calls list_vendors(p): list(COMMAND_REGISTRY[p].keys()) is a new list.
ListVendors(p) ==
  /\ LET r == list_vendors(registry, p)
     IN  /\ last' = Call("list_vendors", p, NoArg, r)
         /\ held' = IF r.raised THEN held
                    ELSE Keep(held, [op |-> "list_vendors",
                                     protocol |-> Lower(p),
                                     vendor |-> NoArg, ref |-> NoRef,
                                     val |-> r.value])
  /\ UNCHANGED << registry, nmut >>
  /\ UNCHANGED collectorVars

\* The client changes the i-th list it holds; a list that is an object of the
\* registry changes there.
Mutate(i, op) ==
  /\ nmut < MaxMutations
  /\ i \in 1..Len(held)
  /\ IF held[i].ref = NoRef
     THEN /\ held' = [held EXCEPT ![i].val = ApplyOp(op, @)]
          /\ registry' = registry
     ELSE /\ registry' = RegistrySet(registry, held[i].ref[2], held[i].ref[3],
                                     ApplyOp(op, Deref(held[i])))
          /\ held' = held
  /\ nmut' = nmut + 1
  /\ last' = [NoCall EXCEPT !.op = "mutate"]
  /\ UNCHANGED collectorVars

RegistryNext ==
  \/ \E p \in ProtocolSpellings, v \in VendorSpellings : GetCommands(p, v)
  \/ ListProtocols
  \/ \E p \in ProtocolSpellings : ListVendors(p)
  \/ \E i \in 1..MaxHeld, op \in ListOps : Mutate(i, op)

RegistrySpec == RegistryInit /\ [][RegistryNext]_vars

(* ------------------ inventory.py: the calls of a client --------------- *)

\* The filters a client passes to get_hosts.
ProtocolFilters == {NoArg, "", "OSPF", "isis"}

VendorFilters == {NoArg, "CISCO", "juniper", "bird"}

\* What the caller of get_hosts does to a list it was returned.
HostListOps == {"pop", "clear", "reverse"}

ApplyHostListOp(op, l) ==
  CASE op = "pop" -> IF l = <<>> THEN l ELSE SubSeq(l, 1, Len(l) - 1)
    [] op = "clear" -> <<>>
    [] op = "reverse" -> [i \in 1..Len(l) |-> l[Len(l) + 1 - i]]

\* A client calls inventory.get_hosts(protocol=p, vendor=v) on a loaded
\* inventory, and keeps the list it is returned.
GetHosts(p, v) ==
  /\ pc = "idle"
  /\ LET value == get_hosts(hosts, p, v)
         ref == get_hosts_ref(p, v)
     IN  /\ last' = Call("get_hosts", p, v,
                         [raised |-> FALSE, exc |-> "", msg |-> None,
                          value |-> value])
         /\ held' = Keep(held, [op |-> "get_hosts", ref |-> ref,
                                val |-> IF ref = NoRef THEN value ELSE <<>>])
  /\ UNCHANGED << registry, nmut >>
  /\ UNCHANGED collectorVars

\* The client changes the i-th list it holds; a list that is the object
\* Inventory.hosts changes in the inventory.
MutateHosts(i, op) ==
  /\ pc = "idle"
  /\ nmut < MaxMutations
  /\ i \in 1..Len(held)
  /\ IF held[i].ref = NoRef
     THEN /\ held' = [held EXCEPT ![i].val = ApplyHostListOp(op, @)]
          /\ hosts' = hosts
     ELSE /\ hosts' = ApplyHostListOp(op, hosts)
          /\ held' = held
  /\ nmut' = nmut + 1
  /\ last' = [NoCall EXCEPT !.op = "mutate"]
  /\ UNCHANGED << load, backend, pc, protocol, selected, nornir, task, finished,
                  invoked, result, registry >>

InventoryNext ==
  \/ \E p \in ProtocolFilters, v \in VendorFilters : GetHosts(p, v)
  \/ \E i \in 1..MaxHeld, op \in HostListOps : MutateHosts(i, op)

\* A loaded inventory and its client: no call of the client reaches a
\* device, and the devices are taken to answer.
InventoryInit ==
  /\ Init
  /\ \A x \in HostNames :
       /\ backend[x].reachable
       /\ \A i \in DOMAIN backend[x].outcome : backend[x].outcome[i] = "ok"

InventorySpec == InventoryInit /\ [][InventoryNext]_vars

(* ====================== the claims, C1 .. C10 ========================= *)

Returned == pc = "returned"

\* The labeled blocks of a raw_lsdb_text, without the "\n" between them.
BlocksOf(text) == SelectSeq(text, LAMBDA b : Len(b) = 4)

\* The host name a block is labeled with.
BlockHost(b) == b[2]

\* The registry as the source lists it, read without get_commands: whether
\* the host's (protocol, vendor) has an entry, and the entry.
Registered(h) ==
  /\ DictHas(COMMAND_REGISTRY, h.protocol)
  /\ DictHas(DictGet(COMMAND_REGISTRY, h.protocol), h.vendor)

RegisteredCommands(h) ==
  DictGet(DictGet(COMMAND_REGISTRY, h.protocol), h.vendor)

\* Whether the i-th command sent to host `name` fails, succeeds.
Fails(name, i) == ~backend[name].reachable \/ backend[name].outcome[i] = "fail"

Succeeds(name, i) == ~Fails(name, i)

\* Every selected host resolves its commands and every command succeeds.
AllSucceed ==
  \A i \in 1..Len(selected) :
    /\ Registered(selected[i])
    /\ \A j \in 1..Len(RegisteredCommands(selected[i])) :
         Succeeds(selected[i].name, j)

\* The places of the HostResults of host h in the returned list.
ResultsOf(h) ==
  {k \in 1..Len(result.host_results) : result.host_results[k].hostname = h.hostname}

\* The selected hosts by ascending name.
SelectedByName == SortSeq(selected, LAMBDA a, b : a.name < b.name)

\* C1 as stated: when every command succeeds, the blocks of raw_lsdb_text
\* follow the order of the list inventory.get_hosts returned: if host A
\* precedes host B in it, every block of A precedes every block of B.
C1_BlocksInInventoryOrder ==
  (Returned /\ AllSucceed) =>
    LET blocks == BlocksOf(result.raw_lsdb_text)
    IN  \A i, j \in 1..Len(selected) :
          i < j =>
            \A a, b \in 1..Len(blocks) :
              (BlockHost(blocks[a]) = selected[i].name
                 /\ BlockHost(blocks[b]) = selected[j].name) => a < b

\* C1 amended: when every command succeeds, every selected host has blocks in
\* raw_lsdb_text and the blocks follow the ascending order of the host names,
\* whatever the completion order of the host tasks: if the name of host A
\* sorts before the name of host B, every block of A precedes every block of B.
C1_BlocksInNameOrder ==
  (Returned /\ AllSucceed) =>
    LET blocks == BlocksOf(result.raw_lsdb_text)
    IN  /\ \A i \in 1..Len(selected) :
             \E a \in 1..Len(blocks) : BlockHost(blocks[a]) = selected[i].name
        /\ \A i, j \in 1..Len(selected) :
             selected[i].name < selected[j].name =>
               \A a, b \in 1..Len(blocks) :
                 (BlockHost(blocks[a]) = selected[i].name
                    /\ BlockHost(blocks[b]) = selected[j].name) => a < b

\* C1 witness: a run has returned whose hosts all succeeded, the inventory
\* listing a later name first, and the first listed host finishing last.
C1_Witness ==
  /\ Returned /\ AllSucceed
  /\ Len(selected) >= 2
  /\ selected[1].name > selected[2].name
  /\ finished[Len(finished)] = selected[1].name
  /\ Len(BlocksOf(result.raw_lsdb_text)) >= 2

\* The dict a host task builds when its commands run one after the other.
RECURSIVE C2_SequentialResults(_, _, _, _)
C2_SequentialResults(name, commands, i, results) ==
  IF i > Len(commands) THEN results
  ELSE C2_SequentialResults(
         name, commands, i + 1,
         DictSet(results, commands[i],
                 IF Fails(name, i)
                 THEN Result(name, None, TRUE,
                             IF backend[name].reachable THEN CmdExc(name, i)
                             ELSE ConnExc(name))
                 ELSE Result(name, Out(name, i), FALSE, None)))

\* What collect(protocol) returns when the hosts are visited one at a time,
\* by ascending name: a function of the inventory, the argument and the
\* outcome of each invocation alone.
C2_Reference ==
  LET hs == get_hosts(hosts, protocol, NoArg)
      byName == SortSeq(hs, LAMBDA a, b : a.name < b.name)
      one(h) ==
        IF Registered(h)
        THEN Result(h.name,
                    C2_SequentialResults(h.name, RegisteredCommands(h), 1, <<>>),
                    FALSE, None)
        ELSE Result(h.name, None, TRUE,
                    IF DictHas(COMMAND_REGISTRY, h.protocol)
                    THEN VendorNotFound(h.vendor, h.protocol)
                    ELSE ProtocolNotFound(h.protocol))
  IN  IF hs = <<>> THEN EmptyResult
      ELSE BuildResult(hs, [i \in 1..Len(byName) |->
                              [k |-> byName[i].name, v |-> one(byName[i])]])

\* C2: what collect() returns is fixed by the inventory, the argument and the
\* outcome of each (host, command) invocation: every interleaving and
\* completion order of the host tasks ends in the same raw_lsdb_text,
\* host_results and errors, those of the one-host-at-a-time run.
C2_Deterministic == Returned => result = C2_Reference

\* C2 witness: a run has returned in which the tasks finished in another
\* order than they were submitted, with a failure and a block in the result.
C2_Witness ==
  /\ Returned
  /\ Len(finished) = 2
  /\ finished # DictKeys(nornir)
  /\ result.errors # <<>>
  /\ result.raw_lsdb_text # <<>>

\* C3: a host task sends its resolved commands in list order, each position
\* at most once, and a task that is done has sent every one of them, whatever
\* the outcomes; when collect() has returned every selected host with a
\* registry entry has been sent exactly its registered list.
C3_EveryCommandAttempted ==
  /\ \A n \in Names :
       /\ Len(invoked[n]) <= Len(task[n].commands)
       /\ invoked[n] = SubSeq(task[n].commands, 1, Len(invoked[n]))
       /\ (task[n].status = "done" /\ ~task[n].failed) =>
            invoked[n] = task[n].commands
  /\ (Returned \/ pc = "raised") =>
       \A i \in 1..Len(selected) :
         Registered(selected[i]) =>
           invoked[selected[i].name] = RegisteredCommands(selected[i])

\* C3 witness: a run has returned in which a host's first command failed and
\* all three of its commands were sent, as were the commands of another host.
C3_Witness ==
  /\ Returned
  /\ \E n, m \in Names :
       /\ n # m
       /\ backend[n].reachable /\ Len(invoked[n]) = 3 /\ Fails(n, 1)
       /\ Len(invoked[m]) >= 1 /\ Fails(m, 1)

\* C4 as stated: a selected host with a registry entry has a HostResult with
\* success = true whose outputs hold the error sentinel under every command
\* that failed on the backend, and when a command of a host failed, every
\* successful output of every other host is a block of raw_lsdb_text.
C4_FailuresKeptInOutputs ==
  Returned =>
    LET blocks == BlocksOf(result.raw_lsdb_text)
        text == {blocks[a] : a \in 1..Len(blocks)}
    IN  \A i \in 1..Len(selected) :
          LET h == selected[i]
              cmds == RegisteredCommands(h)
          IN  (Registered(h) /\ \E j \in 1..Len(cmds) : Fails(h.name, j)) =>
                /\ \E k \in ResultsOf(h) :
                     LET hr == result.host_results[k]
                     IN  /\ hr.success
                         /\ \A j \in 1..Len(cmds) :
                              Fails(h.name, j) =>
                                /\ DictHas(hr.outputs, cmds[j])
                                /\ DictGet(hr.outputs, cmds[j])[1] = "ERROR: {}"
                /\ \A i2 \in 1..Len(selected) :
                     LET g == selected[i2]
                     IN  (i2 # i /\ Registered(g)) =>
                           \A j \in 1..Len(RegisteredCommands(g)) :
                             Succeeds(g.name, j) =>
                               Block(g.name, RegisteredCommands(g)[j],
                                     Out(g.name, j)) \in text

\* What is left of C4 on hosts whose resolved commands are pairwise distinct
\* (no HostResult, sentinel or block is lost for them).
DistinctCommands(h) ==
  LET cmds == RegisteredCommands(h)
  IN  \A a, b \in 1..Len(cmds) : cmds[a] = cmds[b] => a = b

C4_OnDistinctCommands ==
  Returned =>
    LET blocks == BlocksOf(result.raw_lsdb_text)
        text == {blocks[a] : a \in 1..Len(blocks)}
    IN  \A i \in 1..Len(selected) :
          LET h == selected[i]
              cmds == RegisteredCommands(h)
          IN  (Registered(h) /\ DistinctCommands(h)) =>
                /\ \E k \in ResultsOf(h) :
                     LET hr == result.host_results[k]
                     IN  /\ hr.success
                         /\ \A j \in 1..Len(cmds) :
                              Fails(h.name, j) =>
                                /\ DictHas(hr.outputs, cmds[j])
                                /\ DictGet(hr.outputs, cmds[j])[1] = "ERROR: {}"
                /\ \A j \in 1..Len(cmds) :
                     Succeeds(h.name, j) =>
                       Block(h.name, cmds[j], Out(h.name, j)) \in text

\* C5: when collect() has returned over a non-empty host set, a selected host
\* whose (protocol, vendor) has no registry entry has exactly one HostResult,
\* with success = false, no commands and no outputs, errors has exactly one
\* entry naming it, and no command was sent to it; every selected host with
\* an entry has its HostResult with success = true and was sent its commands.
C5_UnknownPairIsHostFailure ==
  (Returned /\ selected # <<>>) =>
    \A i \in 1..Len(selected) :
      LET h == selected[i]
          named == {e \in 1..Len(result.errors) : result.errors[e][2] = h.name}
      IN  IF Registered(h)
          THEN /\ \E k \in ResultsOf(h) : result.host_results[k].success
               /\ invoked[h.name] = RegisteredCommands(h)
          ELSE /\ Cardinality(ResultsOf(h)) = 1
               /\ \A k \in ResultsOf(h) :
                    /\ ~result.host_results[k].success
                    /\ result.host_results[k].commands = <<>>
                    /\ result.host_results[k].outputs = <<>>
                    /\ result.host_results[k].error # None
               /\ Cardinality(named) = 1
               /\ invoked[h.name] = <<>>

\* C5 witness: a run has returned over a host without a registry entry and a
\* host with one, whose blocks are in the text.
C5_Witness ==
  /\ Returned
  /\ \E i, j \in 1..Len(selected) :
       /\ ~Registered(selected[i])
       /\ Registered(selected[j])
       /\ \E k \in ResultsOf(selected[i]) : ~result.host_results[k].success
  /\ result.raw_lsdb_text # <<>>

\* C6 as stated: a selected host to which no connection can be opened has a
\* HostResult with success = false and empty outputs.
C6_UnreachableIsHostFailure ==
  Returned =>
    \A i \in 1..Len(selected) :
      ~backend[selected[i].name].reachable =>
        /\ ResultsOf(selected[i]) # {}
        /\ \A k \in ResultsOf(selected[i]) :
             /\ ~result.host_results[k].success
             /\ result.host_results[k].outputs = <<>>

\* C7: collect() never ends by raising; whatever hosts failed to resolve and
\* whatever commands failed, it ends by returning a CollectionResult.
C7_NeverRaises ==
  /\ pc # "raised"
  /\ Returned <=> result # None
  /\ Returned =>
       /\ DOMAIN result = {"raw_lsdb_text", "host_results", "errors"}
       /\ \A k \in 1..Len(result.host_results) :
            result.host_results[k].success \in BOOLEAN

\* C7 witness: collect() has returned from a run in which one host did not
\* resolve and a command of another failed.
C7_Witness ==
  /\ Returned
  /\ \E i, j \in 1..Len(selected) :
       /\ ~Registered(selected[i])
       /\ Registered(selected[j]) /\ Fails(selected[j].name, 1)
  /\ Len(result.errors) >= 2

\* C8: a call that selects no host returns empty text, no host result and
\* exactly one error, and no task was submitted nor any command sent.
C8_EmptySelection ==
  (pc \notin {"idle", "failed"} /\ selected = <<>>) =>
    /\ Returned
    /\ result.raw_lsdb_text = <<>>
    /\ result.host_results = <<>>
    /\ Len(result.errors) = 1
    /\ nornir = <<>>
    /\ finished = <<>>
    /\ \A n \in Names : task[n].status = "none" /\ invoked[n] = <<>>

\* C8 witness: collect() has returned from a call whose protocol filter
\* matched none of the hosts of a non-empty inventory.
C8_Witness ==
  /\ Returned
  /\ hosts # <<>>
  /\ selected = <<>>
  /\ protocol # NoArg

\* C9: once collect() has returned, every host task that was submitted is
\* done and no command is in flight.
C9_ReturnsAfterJoin ==
  (Returned \/ pc = "raised" \/ result # None) =>
    /\ \A n \in Names :
         task[n].status \in {"none", "done"} /\ ~task[n].inflight
    /\ \A i \in 1..Len(selected) : task[selected[i].name].status = "done"

\* C9 witness: collect() has returned after two host tasks that sent commands.
C9_Witness ==
  /\ Returned
  /\ Len(finished) = 2
  /\ \A n \in Names : invoked[n] # <<>>

\* C10 as stated: after collect() over a non-empty host set, host_results
\* holds one HostResult per selected host, in the order of the host list.
C10_OnePerHostInListOrder ==
  (Returned /\ selected # <<>>) =>
    /\ Len(result.host_results) = Len(selected)
    /\ \A i \in 1..Len(selected) :
         result.host_results[i].hostname = selected[i].hostname

\* C10 amended: after collect() over a non-empty host set, host_results holds
\* exactly one HostResult per selected host, failed hosts included, and no
\* other entry; the list is in ascending order of the host names.
C10_OnePerHostInNameOrder ==
  (Returned /\ selected # <<>>) =>
    /\ Len(result.host_results) = Len(selected)
    /\ \A i \in 1..Len(selected) :
         /\ result.host_results[i].hostname = SelectedByName[i].hostname
         /\ result.host_results[i].vendor = SelectedByName[i].vendor
         /\ result.host_results[i].protocol = SelectedByName[i].protocol
         /\ result.host_results[i].success = Registered(SelectedByName[i])

\* C10 witness: collect() has returned over two hosts listed against the
\* order of their names, one of them failed.
C10_Witness ==
  /\ Returned
  /\ Len(selected) = 2
  /\ selected[1].name > selected[2].name
  /\ \E k \in 1..Len(result.host_results) : ~result.host_results[k].success

(* ====================== the claims, C11 .. C13 ======================== *)

\* The exception the i-th command sent to host `name` raises when it fails.
ExceptionOf(name, i) ==
  IF backend[name].reachable THEN CmdExc(name, i) ELSE ConnExc(name)

\* Whether no later position of cmds holds the command string of position j.
LastOfItsString(cmds, j) == \A j2 \in (j + 1)..Len(cmds) : cmds[j2] # cmds[j]

\* The entries of the returned errors list.
ErrorsSet == {result.errors[e] : e \in 1..Len(result.errors)}

\* The blocks of the returned text that are labeled with host `name`.
BlocksOfHost(name) ==
  SelectSeq(BlocksOf(result.raw_lsdb_text), LAMBDA b : BlockHost(b) = name)

\* The blocks the successful invocations of host h make, in command order.
RECURSIVE ExpectedBlocks(_, _, _)
ExpectedBlocks(h, cmds, j) ==
  IF j > Len(cmds) THEN <<>>
  ELSE (IF Succeeds(h.name, j)
        THEN << Block(h.name, cmds[j], Out(h.name, j)) >> ELSE <<>>)
       \o ExpectedBlocks(h, cmds, j + 1)

\* Every invocation of host h is recorded: a failed one has its entry in
\* errors, and outputs holds, under each command, the raw text or the error
\* sentinel of the (last) invocation of that command.
InvocationsRecorded(h) ==
  LET cmds == RegisteredCommands(h)
  IN  \E k \in ResultsOf(h) :
        LET hr == result.host_results[k]
        IN  \A j \in 1..Len(cmds) :
              /\ DictHas(hr.outputs, cmds[j])
              /\ Fails(h.name, j) =>
                   CommandError(h.name, cmds[j], ExceptionOf(h.name, j)) \in ErrorsSet
              /\ LastOfItsString(cmds, j) =>
                   DictGet(hr.outputs, cmds[j]) =
                     IF Fails(h.name, j)
                     THEN ErrorSentinel(ExceptionOf(h.name, j))
                     ELSE Out(h.name, j)

\* C11 as stated: when collect() has returned, every command invocation of
\* every selected host with a registry entry is recorded: a successful one has
\* its raw text under the command in outputs, a failed one has the sentinel
\* there and one entry of its own in errors, also when the resolved list
\* holds the same command string more than once.
C11_EveryInvocationRecorded ==
  Returned =>
    \A i \in 1..Len(selected) :
      Registered(selected[i]) => InvocationsRecorded(selected[i])

\* What is left of C11 on hosts whose resolved commands are pairwise distinct.
C11_OnDistinctCommands ==
  Returned =>
    \A i \in 1..Len(selected) :
      (Registered(selected[i]) /\ DistinctCommands(selected[i])) =>
        InvocationsRecorded(selected[i])

\* The text holds a block for an invocation of host h exactly if it
\* succeeded, and a failed invocation leaves an entry in outputs and no
\* sentinel in the text.
BlockIffSucceeded(h) ==
  LET cmds == RegisteredCommands(h)
      blocks == BlocksOfHost(h.name)
      text == {blocks[a] : a \in 1..Len(blocks)}
  IN  /\ \A j \in 1..Len(cmds) :
           /\ Succeeds(h.name, j) <=>
                Block(h.name, cmds[j], Out(h.name, j)) \in text
           /\ Fails(h.name, j) =>
                \E k \in ResultsOf(h) :
                  DictHas(result.host_results[k].outputs, cmds[j])
      /\ \A b \in text :
           /\ b[4][1] # "ERROR: {}"
           /\ \E j \in 1..Len(cmds) :
                Succeeds(h.name, j) /\ b = Block(h.name, cmds[j], Out(h.name, j))

C12_OnDistinctCommands ==
  Returned =>
    \A i \in 1..Len(selected) :
      (Registered(selected[i]) /\ DistinctCommands(selected[i])) =>
        BlockIffSucceeded(selected[i])

\* The blocks of host h are those of its successful commands, in command
\* order, and its outputs has one entry per resolved command, in that order.
BlocksInCommandOrder(h) ==
  LET cmds == RegisteredCommands(h)
  IN  /\ BlocksOfHost(h.name) = ExpectedBlocks(h, cmds, 1)
      /\ \E k \in ResultsOf(h) :
           DictKeys(result.host_results[k].outputs) = cmds
      /\ (\A j \in 1..Len(cmds) : Succeeds(h.name, j)) =>
           /\ Len(BlocksOfHost(h.name)) = Len(cmds)
           /\ h.protocol = "ospf" => Len(BlocksOfHost(h.name)) = 3

\* C13 as stated: when collect() has returned, the blocks of every successful
\* host follow its resolved command list, one block per command that
\* succeeded (n blocks when all n succeed, three for an OSPF vendor), and its
\* outputs has one entry per resolved command, in command order.
C13_BlocksInCommandOrder ==
  Returned =>
    \A i \in 1..Len(selected) :
      Registered(selected[i]) => BlocksInCommandOrder(selected[i])

\* What is left of C13 on hosts whose resolved commands are pairwise distinct.
C13_OnDistinctCommands ==
  Returned =>
    \A i \in 1..Len(selected) :
      (Registered(selected[i]) /\ DistinctCommands(selected[i])) =>
        BlocksInCommandOrder(selected[i])

(* ====================== the claims, C14 .. C16 ======================== *)

\* The spellings that differ by letter case only, with the lower-case one.
CaseClasses == {
  [lower |-> "ospf",    variants |-> {"ospf", "OSPF", "Ospf"}],
  [lower |-> "isis",    variants |-> {"isis", "ISIS"}],
  [lower |-> "bgp",     variants |-> {"bgp", "BGP"}],
  [lower |-> "cisco",   variants |-> {"cisco", "Cisco", "CISCO"}],
  [lower |-> "bird",    variants |-> {"bird", "BIRD"}],
  [lower |-> "juniper", variants |-> {"juniper", "Juniper"}],
  [lower |-> "acme",    variants |-> {"acme", "ACME"}] }

CaseClassOf(s) == CHOOSE c \in CaseClasses : s \in c.variants

CaseVariants(s) == CaseClassOf(s).variants

LowerCased(s) == CaseClassOf(s).lower

\* The (protocol, vendor) pairs of the registry as the source lists it.
RegistryPairs ==
  UNION {{<< COMMAND_REGISTRY[i].k, COMMAND_REGISTRY[i].v[j].k >> :
            j \in 1..Len(COMMAND_REGISTRY[i].v)} : i \in 1..Len(COMMAND_REGISTRY)}

\* The list the source registers for a pair.
RegisteredList(p, v) == DictGet(DictGet(COMMAND_REGISTRY, p), v)

\* C14: after any sequence of get_commands, list_protocols and list_vendors
\* calls and of changes made by the caller to the lists they returned,
\* get_commands gives for every (protocol, vendor) pair of the registry
\* exactly the list the source registers, in its order, and the registry
\* object is as the source defines it; a call that has just returned gave
\* the registered list.
C14_RegistryNeverChanged ==
  /\ registry = COMMAND_REGISTRY
  /\ \A pair \in RegistryPairs :
       LET r == get_commands_in(registry, pair[1], pair[2])
       IN  ~r.raised /\ r.value = RegisteredList(pair[1], pair[2])
  /\ (last.op = "get_commands" /\ ~last.raised) =>
       last.value = RegisteredList(LowerCased(last.protocol),
                                   LowerCased(last.vendor))

\* C14 witness: the client holds a list of an earlier get_commands call that
\* it has changed, and a later get_commands call for the same pair has just
\* returned the registered list.
C14_Witness ==
  /\ last.op = "get_commands" /\ ~last.raised
  /\ nmut >= 1
  /\ Len(held) = 2
  /\ held[1].op = "get_commands"
  /\ held[1].protocol = LowerCased(last.protocol)
  /\ held[1].vendor = LowerCased(last.vendor)
  /\ Deref(held[1]) # RegisteredList(held[1].protocol, held[1].vendor)
  /\ last.value = RegisteredList(held[1].protocol, held[1].vendor)

\* C15: get_commands raises for a protocol without registry entry and for a
\* registered protocol with a vendor without entry; both are ValueErrors and
\* they are told apart by their message: the first names the protocol, the
\* second names the vendor and the protocol and carries the list of the
\* vendors registered for the protocol. list_vendors raises for a protocol
\* without entry what get_commands raises for it.
C15_DistinctFailures ==
  /\ last.op = "get_commands" =>
       LET p == LowerCased(last.protocol)
           v == LowerCased(last.vendor)
       IN  IF ~DictHas(COMMAND_REGISTRY, p)
           THEN /\ last.raised /\ last.exc = "ValueError"
                /\ last.msg = << "Protocol '{}' not found in command registry", p >>
           ELSE IF ~DictHas(DictGet(COMMAND_REGISTRY, p), v)
           THEN /\ last.raised /\ last.exc = "ValueError"
                /\ Len(last.msg) = 4
                /\ last.msg[1] # "Protocol '{}' not found in command registry"
                /\ last.msg[2] = v /\ last.msg[3] = p
                /\ last.msg[4] = DictKeys(DictGet(COMMAND_REGISTRY, p))
           ELSE ~last.raised
  /\ last.op = "list_vendors" =>
       IF DictHas(COMMAND_REGISTRY, LowerCased(last.protocol))
       THEN ~last.raised
       ELSE /\ last.raised
            /\ \A v \in VendorSpellings :
                 LET r == get_commands_in(registry, last.protocol, v)
                 IN  r.raised /\ r.exc = last.exc /\ r.msg = last.msg

\* C15 witness: get_commands has just raised for a registered protocol and a
\* vendor without entry, the message carrying the protocol's vendors.
C15_Witness ==
  /\ last.op = "get_commands" /\ last.raised
  /\ DictHas(COMMAND_REGISTRY, LowerCased(last.protocol))
  /\ Len(last.msg) = 4
  /\ Len(last.msg[4]) >= 5

\* The outcome of a call: the list, or the failure.
Outcome(r) == [raised |-> r.raised, exc |-> r.exc, msg |-> r.msg, value |-> r.value]

\* C16: get_commands gives, for a protocol and a vendor in any letter case,
\* the outcome (the same list, or the same failure) it gives for every other
\* case variant of them, the lower-cased ones among these.
C16_CaseInsensitive ==
  last.op = "get_commands" =>
    \A p \in CaseVariants(last.protocol), v \in CaseVariants(last.vendor) :
      Outcome(get_commands_in(registry, p, v)) = Outcome(last)

\* C16 witness: get_commands has just returned a list for a protocol and a
\* vendor that were both given in upper case.
C16_Witness ==
  /\ last.op = "get_commands" /\ ~last.raised
  /\ last.protocol # LowerCased(last.protocol)
  /\ last.vendor # LowerCased(last.vendor)
  /\ last.value # <<>>

(* ====================== the claims, C17 .. C18 ======================== *)

\* The hosts of `all` a present protocol filter p and a present vendor filter
\* v let through, compared without regard to letter case; `absent` says which
\* filter values count as no filter.
FilteredHosts(all, p, v, absent(_)) ==
  SelectSeq(all, LAMBDA h :
    /\ absent(p) \/ (p # "" /\ h.protocol = LowerCased(p))
    /\ absent(v) \/ (v # "" /\ h.vendor = LowerCased(v)))

\* C17 as stated: get_hosts(protocol, vendor) returns exactly the loaded
\* hosts whose protocol equals the protocol filter and whose vendor equals
\* the vendor filter, letter case apart, in file order; only a filter that
\* was not given (None) imposes no restriction.
C17_ExactFilter ==
  last.op = "get_hosts" =>
    last.value = FilteredHosts(hosts, last.protocol, last.vendor,
                               LAMBDA f : f = NoArg)

\* C17 amended: get_hosts(protocol, vendor) returns exactly the loaded hosts
\* whose protocol equals the protocol filter and whose vendor equals the
\* vendor filter, letter case apart, as a subsequence of the loaded list in
\* file order; a filter that is None or the empty string imposes no
\* restriction, so get_hosts() returns all the hosts.
C17_ExactFilterOrEmpty ==
  last.op = "get_hosts" =>
    /\ last.value = FilteredHosts(hosts, last.protocol, last.vendor,
                                  LAMBDA f : f = NoArg \/ f = "")
    /\ (last.protocol = NoArg /\ last.vendor = NoArg) => last.value = hosts

\* C17 witness: get_hosts has just returned, for a protocol and a vendor
\* filter both in upper case, the second of two loaded hosts only.
C17_Witness ==
  /\ last.op = "get_hosts"
  /\ last.protocol = "OSPF" /\ last.vendor = "CISCO"
  /\ Len(hosts) = 2
  /\ last.value = << hosts[2] >>

\* Whether a record of the file lacks address, vendor or protocol: it is
\* null, or the field is absent or empty.
LacksRequired(data) ==
  \/ data = YamlNull
  \/ ~("hostname" \in DOMAIN data) \/ data["hostname"] = None
  \/ ~("vendor" \in DOMAIN data) \/ data["vendor"] = ""
  \/ ~("protocol" \in DOMAIN data) \/ data["protocol"] = ""

InvalidRecords == {i \in 1..Len(load.file) : LacksRequired(load.file[i].data)}

\* Nothing was produced and nothing runs.
NothingProduced ==
  /\ pc = "failed"
  /\ hosts = None
  /\ nornir = <<>>
  /\ result = None
  /\ \A n \in Names : task[n].status = "none" /\ invoked[n] = <<>>

\* C18 as stated: loading a file in which a host record lacks address,
\* vendor or protocol (absent, empty, or the record itself empty) raises a
\* validation error naming an offending host, and then there is no
\* inventory and no collector, and no host task is started.
C18_InvalidRecordIsValidationError ==
  InvalidRecords # {} =>
    /\ load.raised
    /\ load.exc = "ValueError"
    /\ Len(load.msg) >= 2
    /\ \E i \in InvalidRecords : load.msg[2] = load.file[i].name
    /\ NothingProduced

\* What is left of C18: a file with such a record never loads, whatever the
\* shape of the record, and the failure is fatal; when the first such record
\* is a mapping the error is a ValueError naming it.
C18_LoadFailureIsFatal ==
  /\ load.raised <=> InvalidRecords # {}
  /\ load.raised <=> pc = "failed"
  /\ load.raised => NothingProduced
  /\ InvalidRecords # {} =>
       LET first == CHOOSE i \in InvalidRecords : \A j \in InvalidRecords : i <= j
       IN  load.file[first].data # YamlNull =>
             /\ load.exc = "ValueError"
             /\ load.msg[2] = load.file[first].name

(* ====================== the claims, C19 .. C20 ======================== *)

\* The commands of host n the backend has answered or failed: the turns of
\* the task's loop that are over.
Answered(n) ==
  IF task[n].status \in {"running", "done"} /\ ~task[n].failed
  THEN task[n].idx - 1 ELSE 0

\* The commands of host n that were sent and are not answered yet.
InFlight(n) == Len(invoked[n]) - Answered(n)

\* C19: at every moment each host has at most one command in flight on the
\* backend, and the commands of a host are sent in the order of its resolved
\* list, the next one only after the one before it has returned or failed.
C19_OneInFlightInOrder ==
  \A n \in Names :
    /\ InFlight(n) \in {0, 1}
    /\ InFlight(n) = 1 <=> task[n].inflight
    /\ invoked[n] = SubSeq(task[n].commands, 1, Len(invoked[n]))
    /\ Len(task[n].results) <= Answered(n)

\* C19 witness: two hosts have a command in flight at the same time, one of
\* them its second command, the first having failed.
C19_Witness ==
  \E n, m \in Names :
    /\ n # m
    /\ task[n].inflight /\ task[m].inflight
    /\ task[n].idx = 2 /\ Fails(n, 1)
    /\ Len(invoked[n]) = 2

\* The tasks that were submitted to the runner.
Submitted == {n \in HostNames : task[n].status # "none"}

\* C20: a run has exactly one host task per selected host, each task
\* finishes at most once, and at every moment at most num_workers (10) host
\* tasks are being run: a host beyond the limit is queued until a task that
\* is being run finishes.
C20_OneTaskPerHostWithinPool ==
  /\ num_workers = 10
  /\ Cardinality(Running) <= num_workers
  /\ \A n \in HostNames :
       (task[n].status = "queued" /\ Cardinality(Running) < num_workers) =>
         \A m \in HostNames : m > n => task[m].status \in {"none", "queued"}
  /\ pc \in {"running", "returned"} /\ selected # <<>> =>
       /\ Submitted = {selected[i].name : i \in 1..Len(selected)}
       /\ Len(nornir) = Len(selected)
       /\ Cardinality(Submitted) = Len(selected)
  /\ \A i, j \in 1..Len(finished) : finished[i] = finished[j] => i = j
  /\ \A i \in 1..Len(finished) : task[finished[i]].status = "done"
  /\ Returned /\ selected # <<>> => Len(finished) = Len(selected)

\* C20 witness: num_workers tasks are being run, one task has finished, and
\* the host beyond the limit, which was queued while the pool was full, is
\* among those being run.
C20_Witness ==
  /\ Cardinality(Running) = num_workers
  /\ Len(selected) > num_workers
  /\ Len(finished) = 1
  /\ task[selected[Len(selected)].name].status = "running"

\* The pool is full and a host waits for a worker.
C20_PoolFullHostQueued ==
  /\ Cardinality(Running) = num_workers
  /\ finished = <<>>
  /\ \E n \in HostNames : task[n].status = "queued"

(* ========================== the claim C21 ============================= *)

\* What the task of host h hands to the runner when it runs alone.
C21_AloneResult(h) ==
  IF Registered(h)
  THEN Result(h.name,
              C2_SequentialResults(h.name, RegisteredCommands(h), 1, <<>>),
              FALSE, None)
  ELSE Result(h.name, None, TRUE,
              IF DictHas(COMMAND_REGISTRY, h.protocol)
              THEN VendorNotFound(h.vendor, h.protocol)
              ELSE ProtocolNotFound(h.protocol))

\* The dict of the task of host n holds the outcomes of the commands the task
\* has got an answer for, and nothing else.
C21_OwnProgressOnly(n) ==
  task[n].status \in {"running", "done"} /\ ~task[n].failed =>
    task[n].results =
      C2_SequentialResults(n, SubSeq(task[n].commands, 1, task[n].idx - 1),
                           1, <<>>)

\* A step that changes what the task of host n has written changes nothing
\* of another task, unless it is collect() submitting the tasks.
C21_StepOfOneTask ==
  \A n \in HostNames :
    (task'[n] # task[n] \/ invoked'[n] # invoked[n]) =>
      \/ pc = "idle"
      \/ \A m \in HostNames \ {n} :
           task'[m] = task[m] /\ invoked'[m] = invoked[m]

\* The CollectionResult is written in the step in which collect() returns,
\* with every task done, and the tasks are left alone by that step.
C21_ResultAfterJoin ==
  result' # result =>
    /\ pc' = "returned"
    /\ pc = "idle" \/ (pc = "running" /\ JoinReady /\ task' = task)

\* C21: host tasks share no mutable state. A step of a task writes the
\* accumulation of that host only; errors, host_results and the aggregated
\* text do not exist while the tasks run and are written once, after the
\* join; and what a task holds and hands over is what the host gives when its
\* task runs alone, under every interleaving with the other tasks.
C21_NoSharedState ==
  /\ [](/\ pc = "running" => result = None
        /\ \A n \in HostNames : C21_OwnProgressOnly(n)
        /\ \A i \in 1..Len(selected) :
             task[selected[i].name].status = "done" =>
               TaskResult(selected[i].name) = C21_AloneResult(selected[i]))
  /\ [][C21_StepOfOneTask /\ C21_ResultAfterJoin]_vars

\* C21 witness: two tasks run at once, each with outcomes in its dict and
\* commands left to send, one of them with a failed command.
C21_Witness ==
  /\ pc = "running"
  /\ \E n, m \in HostNames :
       /\ n # m
       /\ task[n].status = "running" /\ task[m].status = "running"
       /\ task[n].results # <<>> /\ task[m].results # <<>>
       /\ task[n].idx <= Len(task[n].commands)
       /\ task[m].idx <= Len(task[m].commands)
       /\ \E i \in 1..Len(task[n].results) : task[n].results[i].v.failed

(* ========================== the claim C22 ============================= *)

\* The hosts as they were right after the load of the file.
C22_Loaded == LoadInventory(load.file).hosts

\* C22 as stated: the inventory is read-only after load. After any sequence
\* of get_hosts calls, with or without filters, and of changes the caller
\* makes to the lists get_hosts returned, get_hosts() returns the hosts of
\* the load, in the order of the load.
C22_ReadOnlyAfterLoad ==
  (last.op = "get_hosts" /\ last.protocol = NoArg /\ last.vendor = NoArg) =>
    last.value = C22_Loaded

\* What holds of the callers: the hosts of the inventory change only in a
\* step in which the caller changes a list it holds that get_hosts returned
\* without a truthy filter, the object Inventory.hosts itself; a change to a
\* list returned for a truthy filter leaves the inventory as it is.
C22_ChangedThroughUnfilteredListOnly ==
  [][hosts' # hosts =>
       /\ last'.op = "mutate"
       /\ \E i \in 1..Len(held) : held[i].ref = InventoryRef]_vars

\* A state in which the caller, having changed lists returned for truthy
\* filters only, finds the inventory as loaded.
C22_FilteredListChanged ==
  /\ nmut = MaxMutations
  /\ Len(held) = MaxHeld
  /\ \A i \in 1..Len(held) : held[i].ref = NoRef
  /\ last.op = "get_hosts" /\ last.protocol = "OSPF" /\ last.vendor = NoArg
  /\ Len(hosts) = 2
  /\ hosts = C22_Loaded

\* What holds of collect(): no step of a collect() call, from the selection
\* of the hosts to the return, changes the hosts of the inventory.
C22_CollectLeavesInventory == ~load.raised => hosts = C22_Loaded

(* ========================== the claim C23 ============================= *)

\* The task of host n was submitted and one of the commands it will send is
\* never answered.
C23_NeverAnswered(n) ==
  /\ task[n].status # "none"
  /\ \E i \in DOMAIN backend[n].outcome : backend[n].outcome[i] = "hang"

\* Every invocation of the run returns or fails.
C23_EveryInvocationAnswers == \A n \in Names : ~C23_NeverAnswered(n)

\* C23: under fair scheduling, when every command invocation of the run
\* returns or fails, every submitted host task finishes and collect()
\* returns its CollectionResult; and a run with a host task that never
\* returns never returns: the task is never done, and collect() stays in
\* nornir.run, without result.
C23_ReturnsIffEveryTaskReturns ==
  /\ (pc = "running" /\ C23_EveryInvocationAnswers)
       ~> (/\ \A n \in Names : task[n].status \in {"none", "done"}
           /\ Returned /\ result # None)
  /\ [](\A n \in Names :
          C23_NeverAnswered(n) =>
            /\ task[n].status # "done"
            /\ pc = "running" /\ result = None)

\* C23 witness: collect() has returned from a run of two host tasks, one of
\* them with a failed invocation, every invocation answered.
C23_Witness ==
  /\ Returned
  /\ Len(finished) = 2
  /\ C23_EveryInvocationAnswers
  /\ \E n \in Names : \E i \in 1..Len(invoked[n]) : backend[n].outcome[i] = "fail"

\* A state of a run that never returns: every other task is done, no step
\* of a task is left to take, and one task waits for an answer.
C23_Blocked ==
  /\ pc = "running"
  /\ Len(nornir) = 2
  /\ Len(finished) = 1
  /\ \E n \in Names :
       /\ task[n].status = "running" /\ task[n].inflight
       /\ backend[n].outcome[task[n].idx] = "hang"

====
